---- MODULE Spec2Model ----
(***************************************************************************)
(* MMDS request parsing (api_server/src/request/mmds.rs) and the MMDS      *)
(* configuration model (vmm/src/vmm_config/mmds.rs).                       *)
(*                                                                         *)
(* A request body is the raw text handed to serde_json: either text that   *)
(* is not JSON, or the text of a JSON document, kept as its syntax tree    *)
(* (an object is the SEQUENCE of its members as written, so a key may      *)
(* occur twice).  Strings that are parsed character by character (the      *)
(* pool entries) are tuples of one-character strings.                      *)
(***************************************************************************)
EXTENDS Integers, Sequences, FiniteSets, TLC

VARIABLES method, body, first_token, op, result, cfg, idx, ipv4_addr_vec, pool_pc, pool_result

vars == <<method, body, first_token, op, result, cfg, idx, ipv4_addr_vec, pool_pc, pool_result>>

\* ---------------------------------------------------------------- bounds
MaxPool == 2

MaxFields == 2

SeqsUpTo(S, n) == UNION {[1..k -> S] : k \in 0..n}

\* ------------------------------------------------------- JSON documents
JStr(s) == [t |-> "str", s |-> s]

JNum(n) == [t |-> "num", n |-> n]

JArr(items) == [t |-> "arr", items |-> items]

JObj(members) == [t |-> "obj", members |-> members]

Member(k, v) == [key |-> k, value |-> v]

JsonBody(doc) == [json |-> TRUE, doc |-> doc]

NotJsonBody == [json |-> FALSE, text |-> "invalid_body"]

\* ------------------------------------------------------ Option / Result
None == [some |-> FALSE]

Some(v) == [some |-> TRUE, v |-> v]

Ok(v) == [ok |-> TRUE, val |-> v]

Err(e) == [ok |-> FALSE, err |-> e]

\* ------------------------------------------------- std::net::Ipv4Addr
DigitChars == <<"0", "1", "2", "3", "4", "5", "6", "7", "8", "9">>

IsDigit(c) == \E d \in 1..10 : DigitChars[d] = c

DigitVal(c) == (CHOOSE d \in 1..10 : DigitChars[d] = c) - 1

\* Reads a decimal number of at most three digits and value below 256,
\* starting at position pos of s; n digits have been read so far with value r.
RECURSIVE read_number(_, _, _, _)
read_number(s, pos, n, r) ==
    IF pos <= Len(s) /\ IsDigit(s[pos])
    THEN LET r2 == r * 10 + DigitVal(s[pos]) IN
         IF n + 1 > 3 \/ r2 >= 256
         THEN [ok |-> FALSE, pos |-> pos]
         ELSE read_number(s, pos + 1, n + 1, r2)
    ELSE IF n = 0 THEN [ok |-> FALSE, pos |-> pos]
         ELSE [ok |-> TRUE, pos |-> pos, num |-> r]

\* Four numbers separated by dots; i numbers have been read into octets.
RECURSIVE read_ipv4_addr(_, _, _, _)
read_ipv4_addr(s, pos, i, octets) ==
    IF i = 4 THEN [ok |-> TRUE, pos |-> pos, octets |-> octets]
    ELSE IF i # 0 /\ ~(pos <= Len(s) /\ s[pos] = ".")
         THEN [ok |-> FALSE, pos |-> pos]
         ELSE LET start == IF i = 0 THEN pos ELSE pos + 1
                  r == read_number(s, start, 0, 0)
              IN IF ~r.ok THEN [ok |-> FALSE, pos |-> r.pos]
                 ELSE read_ipv4_addr(s, r.pos, i + 1, Append(octets, r.num))

AddrParseError == [kind |-> "AddrParseError"]

\* Ipv4Addr::from_str: the whole string must be consumed.
from_str(s) ==
    LET r == read_ipv4_addr(s, 1, 0, <<>>) IN
    IF r.ok /\ r.pos = Len(s) + 1 THEN Ok([octets |-> r.octets])
    ELSE Err(AddrParseError)

\* ------------------------------------------------------ vmm_config::mmds
MmdsConfig(pool) == [ipv4_address_pool |-> pool]

IPv4ParseError(e) == [kind |-> "IPv4ParseError", detail |-> e]

SetMmdsConfigurationNotAllowedPostBoot == [kind |-> "SetMmdsConfigurationNotAllowedPostBoot"]

loop_body_skip_invalid(s, vec) ==
    LET ipv4_addr == from_str(s) IN
    IF ~ipv4_addr.ok
    THEN [ret |-> FALSE, vec |-> vec]
    ELSE [ret |-> FALSE, vec |-> Append(vec, ipv4_addr.val)]

\* One iteration of the loop of ipv4_addr_pool on the entry s: either the
\* early return of `?` or the push.
loop_body(s, vec) ==
    LET ipv4_addr == from_str(s) IN
    IF ~ipv4_addr.ok
    THEN [ret |-> TRUE, vec |-> vec, value |-> Err(IPv4ParseError(ipv4_addr.err))]
    ELSE [ret |-> FALSE, vec |-> Append(vec, ipv4_addr.val)]

RECURSIVE pool_loop(_, _, _)
pool_loop(pool, i, vec) ==
    IF i > Len(pool) THEN Ok(vec)
    ELSE LET it == loop_body(pool[i], vec) IN
         IF it.ret THEN it.value ELSE pool_loop(pool, i + 1, it.vec)

ipv4_addr_pool(self) == pool_loop(self.ipv4_address_pool, 1, <<>>)

\* ------------------------------------------------------------ serde_json
\* serde_json::Value: an object is a map, a repeated key keeps its last value.
RECURSIVE to_value(_)
to_value(doc) ==
    CASE doc.t = "str" -> [v |-> "String", str |-> doc.s]
      [] doc.t = "num" -> [v |-> "Number", number |-> doc.n]
      [] doc.t = "arr" -> [v |-> "Array",
                           elems |-> [i \in 1..Len(doc.items) |-> to_value(doc.items[i])]]
      [] doc.t = "obj" ->
            LET ms   == doc.members
                keys == {ms[i].key : i \in 1..Len(ms)}
                last(k) == CHOOSE i \in 1..Len(ms) :
                              /\ ms[i].key = k
                              /\ \A j \in (i + 1)..Len(ms) : ms[j].key # k
            IN [v |-> "Object", map |-> [k \in keys |-> to_value(ms[last(k)].value)]]

from_slice_Value(raw) ==
    IF ~raw.json THEN Err("syntax") ELSE Ok(to_value(raw.doc))

\* Vec<String>: a JSON array whose elements are all strings.
deserialize_vec_string(doc) ==
    IF doc.t = "arr" /\ \A i \in 1..Len(doc.items) : doc.items[i].t = "str"
    THEN Ok([i \in 1..Len(doc.items) |-> doc.items[i].s])
    ELSE Err("invalid type")

RECURSIVE visit_map_allow_unknown(_, _, _)
visit_map_allow_unknown(ms, i, pool) ==
    IF i > Len(ms)
    THEN IF pool.some THEN Ok(MmdsConfig(pool.v)) ELSE Err("missing field")
    ELSE IF ms[i].key = "ipv4_address_pool"
         THEN IF pool.some THEN Err("duplicate field")
              ELSE LET v == deserialize_vec_string(ms[i].value) IN
                   IF ~v.ok THEN v ELSE visit_map_allow_unknown(ms, i + 1, Some(v.val))
         ELSE visit_map_allow_unknown(ms, i + 1, pool)

\* The derived visitor of MmdsConfig over the members of an object, in the
\* order written; pool is None until the field has been seen.
RECURSIVE visit_map(_, _, _)
visit_map(ms, i, pool) ==
    IF i > Len(ms)
    THEN IF pool.some THEN Ok(MmdsConfig(pool.v)) ELSE Err("missing field")
    ELSE IF ms[i].key = "ipv4_address_pool"
         THEN IF pool.some THEN Err("duplicate field")
              ELSE LET v == deserialize_vec_string(ms[i].value) IN
                   IF ~v.ok THEN v ELSE visit_map(ms, i + 1, Some(v.val))
         ELSE Err("unknown field")

\* The derived visitor over a JSON array: the fields by position.
visit_seq(items) ==
    IF Len(items) = 0 THEN Err("invalid length")
    ELSE LET v == deserialize_vec_string(items[1]) IN
         IF ~v.ok THEN v
         ELSE IF Len(items) > 1 THEN Err("trailing characters")
              ELSE Ok(MmdsConfig(v.val))

from_slice_MmdsConfig(raw) ==
    IF ~raw.json THEN Err("syntax")
    ELSE CASE raw.doc.t = "obj" -> visit_map(raw.doc.members, 1, None)
           [] raw.doc.t = "arr" -> visit_seq(raw.doc.items)
           [] OTHER -> Err("invalid type")

\* -------------------------------------------------- api_server::request
Generic(status, msg) == [kind |-> "Generic", status |-> status, msg |-> msg]

SerdeJson(e) == [kind |-> "SerdeJson", e |-> e]

MmdsConfigError(e) == [kind |-> "MmdsConfig", cfgerr |-> e]

GetMMDS == [kind |-> "GetMMDS"]

PutMMDS(v) == [kind |-> "PutMMDS", data |-> v]

PatchMMDS(v) == [kind |-> "PatchMMDS", data |-> v]

SetMmdsConfiguration(c) == [kind |-> "Sync", action |-> "SetMmdsConfiguration", config |-> c]

parse_get_mmds == Ok(GetMMDS)

\* format!("Unrecognized PUT request path `{}`.", token); the grave accents of
\* the source text are written ' here.
unrecognized_path(token) == "Unrecognized PUT request path '" \o token \o "'."

\* The configuration branch of parse_put_mmds (if config_request { ... }).
put_config_request_inverted_check(b) ==
    LET mmds_config == from_slice_MmdsConfig(b) IN
    IF ~mmds_config.ok THEN Err(SerdeJson(mmds_config.err))
    ELSE LET mmds_ipv4_addr_pool == ipv4_addr_pool(mmds_config.val) IN
         IF ~mmds_ipv4_addr_pool.ok
         THEN Err(MmdsConfigError(mmds_ipv4_addr_pool.err))
         ELSE IF mmds_ipv4_addr_pool.val # <<>>
              THEN Err(Generic("BadRequest", "The IPv4 addresses pool is empty."))
              ELSE Ok(SetMmdsConfiguration(mmds_config.val))

put_config_request_no_empty_check(b) ==
    LET mmds_config == from_slice_MmdsConfig(b) IN
    IF ~mmds_config.ok THEN Err(SerdeJson(mmds_config.err))
    ELSE LET mmds_ipv4_addr_pool == ipv4_addr_pool(mmds_config.val) IN
         IF ~mmds_ipv4_addr_pool.ok
         THEN Err(MmdsConfigError(mmds_ipv4_addr_pool.err))
         ELSE Ok(SetMmdsConfiguration(mmds_config.val))

put_config_request_empty_as_serde(b) ==
    LET mmds_config == from_slice_MmdsConfig(b) IN
    IF ~mmds_config.ok THEN Err(SerdeJson(mmds_config.err))
    ELSE LET mmds_ipv4_addr_pool == ipv4_addr_pool(mmds_config.val) IN
         IF ~mmds_ipv4_addr_pool.ok
         THEN Err(MmdsConfigError(mmds_ipv4_addr_pool.err))
         ELSE IF mmds_ipv4_addr_pool.val = <<>>
              THEN Err(SerdeJson("invalid length"))
              ELSE Ok(SetMmdsConfiguration(mmds_config.val))

put_config_request(b) ==
    LET mmds_config == from_slice_MmdsConfig(b) IN
    IF ~mmds_config.ok THEN Err(SerdeJson(mmds_config.err))
    ELSE LET mmds_ipv4_addr_pool == ipv4_addr_pool(mmds_config.val) IN
         IF ~mmds_ipv4_addr_pool.ok
         THEN Err(MmdsConfigError(mmds_ipv4_addr_pool.err))
         ELSE IF mmds_ipv4_addr_pool.val = <<>>
              THEN Err(Generic("BadRequest", "The IPv4 addresses pool is empty."))
              ELSE Ok(SetMmdsConfiguration(mmds_config.val))

\* The data branch of parse_put_mmds (the final Ok(ParsedRequest::PutMMDS(..))).
put_data_request_validating(b) ==
    IF from_slice_MmdsConfig(b).ok THEN put_config_request(b)
    ELSE LET v == from_slice_Value(b) IN
         IF ~v.ok THEN Err(SerdeJson(v.err)) ELSE Ok(PutMMDS(v.val))

put_data_request(b) ==
    LET v == from_slice_Value(b) IN
    IF ~v.ok THEN Err(SerdeJson(v.err)) ELSE Ok(PutMMDS(v.val))

parse_put_mmds_fallback(b, token) ==
    LET config_request == token.some /\ token.v = "config" IN
    IF config_request THEN put_config_request(b) ELSE put_data_request(b)

parse_put_mmds(b, token) ==
    IF token.some /\ token.v # "config"
    THEN Err(Generic("BadRequest", unrecognized_path(token.v)))
    ELSE LET config_request == token.some IN
         IF config_request THEN put_config_request(b) ELSE put_data_request(b)

parse_patch_mmds_as_put(b) ==
    LET v == from_slice_Value(b) IN
    IF ~v.ok THEN Err(SerdeJson(v.err)) ELSE Ok(PutMMDS(v.val))

parse_patch_mmds(b) ==
    LET v == from_slice_Value(b) IN
    IF ~v.ok THEN Err(SerdeJson(v.err)) ELSE Ok(PatchMMDS(v.val))

\* ---------------------------------------------------------------- inputs
A1111 == <<"1", ".", "1", ".", "1", ".", "1">>

A2222 == <<"2", ".", "2", ".", "2", ".", "2">>

A11111 == <<"1", ".", "1", ".", "1", ".", "1", ".", "1">>

A256 == <<"2", "5", "6", ".", "1", ".", "1", ".", "1">>

A255 == <<"2", "5", "5", ".", "0", ".", "1", "0", ".", "9">>

A111 == <<"1", ".", "1", ".", "1">>

Aabc == <<"a", ".", "b", ".", "c", ".", "d">>

AddrStrings == {A1111, A2222, A255, A11111, A256, A111, Aabc, <<>>}

BodyAddrStrings == {A1111, A2222, A11111}

PoolDoc(pool) == JArr([i \in 1..Len(pool) |-> JStr(pool[i])])

PoolDocs == {PoolDoc(p) : p \in SeqsUpTo(BodyAddrStrings, MaxPool)}

OtherDocs == {JStr(<<"b", "a", "r">>), JArr(<<JStr(A1111), JNum(1)>>)}

Members == {Member("ipv4_address_pool", v) : v \in PoolDocs \cup OtherDocs}
             \cup {Member("invalid_config", JStr(<<"v">>))}

Objects == {JObj(ms) : ms \in SeqsUpTo(Members, MaxFields)}

\* Top-level documents: objects, bare values, and arrays holding a pool.
Documents ==
    Objects \cup PoolDocs \cup OtherDocs \cup {JArr(<<d>>) : d \in PoolDocs}
        \cup {JArr(<<PoolDoc(<<A1111>>), PoolDoc(<<>>)>>)}

Bodies == {NotJsonBody} \cup {JsonBody(d) : d \in Documents}

Tokens == {None, Some("config"), Some("Config"), Some("invalid_path"), Some("")}

Configs == {MmdsConfig(p) : p \in SeqsUpTo(AddrStrings, MaxPool)}

NoResult == [pending |-> TRUE]

\* ------------------------------------------------------------ the machine
\* A call about to be made: the operation and its arguments.  parse_get_mmds
\* takes no argument and parse_patch_mmds no path token; the variables they do
\* not read hold a fixed value.
InitRequest ==
    /\ \/ method = "get" /\ body = NotJsonBody /\ first_token = None
       \/ method = "put" /\ body \in Bodies /\ first_token \in Tokens
       \/ method = "patch" /\ body \in Bodies /\ first_token = None
    /\ op = "none"
    /\ result = NoResult
    /\ cfg = MmdsConfig(<<>>)
    /\ idx = 0
    /\ ipv4_addr_vec = <<>>
    /\ pool_pc = "off"
    /\ pool_result = NoResult

\* A call of ipv4_addr_pool on a configuration built directly.
InitPool ==
    /\ method = "ipv4_addr_pool"
    /\ body = NotJsonBody
    /\ first_token = None
    /\ op = "off"
    /\ result = NoResult
    /\ cfg \in Configs
    /\ idx = 1
    /\ ipv4_addr_vec = <<>>
    /\ pool_pc = "loop"
    /\ pool_result = NoResult

Init == InitRequest \/ InitPool

pool_vars == <<cfg, idx, ipv4_addr_vec, pool_pc, pool_result>>

GetMmds ==
    /\ method = "get"
    /\ op = "none"
    /\ op' = "get"
    /\ result' = parse_get_mmds
    /\ UNCHANGED <<method, body, first_token, pool_vars>>

PutMmds ==
    /\ method = "put"
    /\ op = "none"
    /\ op' = "put"
    /\ result' = parse_put_mmds(body, first_token)
    /\ UNCHANGED <<method, body, first_token, pool_vars>>

PatchMmds ==
    /\ method = "patch"
    /\ op = "none"
    /\ op' = "patch"
    /\ result' = parse_patch_mmds(body)
    /\ UNCHANGED <<method, body, first_token, pool_vars>>

\* ipv4_addr_pool, one loop iteration at a time.
PoolIter ==
    /\ pool_pc = "loop"
    /\ idx <= Len(cfg.ipv4_address_pool)
    /\ LET it == loop_body(cfg.ipv4_address_pool[idx], ipv4_addr_vec) IN
       IF it.ret
       THEN /\ pool_result' = it.value
            /\ pool_pc' = "done"
            /\ UNCHANGED <<idx, ipv4_addr_vec>>
       ELSE /\ ipv4_addr_vec' = it.vec
            /\ idx' = idx + 1
            /\ UNCHANGED <<pool_pc, pool_result>>
    /\ UNCHANGED <<method, body, first_token, op, result, cfg>>

\* The loop is over: Ok(ipv4_addr_vec).
PoolReturn ==
    /\ pool_pc = "loop"
    /\ idx > Len(cfg.ipv4_address_pool)
    /\ pool_result' = Ok(ipv4_addr_vec)
    /\ pool_pc' = "done"
    /\ UNCHANGED <<method, body, first_token, op, result, cfg, idx, ipv4_addr_vec>>

Next == GetMmds \/ PutMmds \/ PatchMmds \/ PoolIter \/ PoolReturn

Spec == Init /\ [][Next]_vars

\* ------------------------------------------------ vocabulary of the claims
Done == op \in {"get", "put", "patch"}

PoolKey == "ipv4_address_pool"

EmptyPoolText == "The IPv4 addresses pool is empty."

IsObject(b) == b.json /\ b.doc.t = "obj"

IsStringArray(doc) == doc.t = "arr" /\ \A i \in 1..Len(doc.items) : doc.items[i].t = "str"

Strings(doc) == [i \in 1..Len(doc.items) |-> doc.items[i].s]

ParsesAsIpv4(s) == from_str(s).ok

\* A JSON array of strings, not empty, each of them an IPv4 address.
ValidPoolDoc(doc) ==
    /\ IsStringArray(doc)
    /\ Len(doc.items) > 0
    /\ \A i \in 1..Len(doc.items) : ParsesAsIpv4(doc.items[i].s)

\* An object whose only member is ipv4_address_pool, an array of strings.
IsConfigBody(b) ==
    /\ IsObject(b)
    /\ Len(b.doc.members) = 1
    /\ b.doc.members[1].key = PoolKey
    /\ IsStringArray(b.doc.members[1].value)

EmptyPoolBody == JsonBody(JObj(<<Member(PoolKey, JArr(<<>>))>>))

\* C1: a PUT whose first path token is present and is not exactly "config"
\* fails with the routing error naming that token, whatever the body is.
C1_RoutingError ==
    (op = "put" /\ first_token.some /\ first_token.v # "config")
        => result = Err(Generic("BadRequest",
                "Unrecognized PUT request path '" \o first_token.v \o "'."))

C1_Witness ==
    /\ op = "put"
    /\ first_token = Some("Config")
    /\ body = JsonBody(JObj(<<Member(PoolKey, PoolDoc(<<A1111>>))>>))
    /\ result = Err(Generic("BadRequest", "Unrecognized PUT request path 'Config'."))

\* C2 as stated: every JSON object with a present, non-empty, all-valid-IPv4
\* ipv4_address_pool, PUT with token "config", yields SetMmdsConfiguration
\* wrapping the submitted strings in their order.
C2_Original ==
    (op = "put" /\ first_token = Some("config") /\ IsObject(body))
        => \A i \in 1..Len(body.doc.members) :
              (body.doc.members[i].key = PoolKey /\ ValidPoolDoc(body.doc.members[i].value))
                 => result = Ok(SetMmdsConfiguration(
                                   MmdsConfig(Strings(body.doc.members[i].value))))

\* C2 amended: the same for a JSON object whose ONLY member is one
\* ipv4_address_pool, a non-empty array of IPv4 strings.
C2_SetConfiguration ==
    (op = "put" /\ first_token = Some("config") /\ IsConfigBody(body)
       /\ ValidPoolDoc(body.doc.members[1].value))
        => result = Ok(SetMmdsConfiguration(
                          MmdsConfig(Strings(body.doc.members[1].value))))

C2_Witness ==
    /\ op = "put"
    /\ first_token = Some("config")
    /\ body = JsonBody(JObj(<<Member(PoolKey, PoolDoc(<<A2222, A1111>>))>>))
    /\ result.ok
    /\ result.val.config.ipv4_address_pool = <<A2222, A1111>>

\* C3: the object whose only content is ipv4_address_pool: [], PUT with token
\* "config", fails with the empty-pool error, never with the IPv4 parse error:
\* deserialization and ipv4_addr_pool both succeed on it.
C3_EmptyPool ==
    (op = "put" /\ first_token = Some("config") /\ body = EmptyPoolBody)
        => /\ result = Err(Generic("BadRequest", EmptyPoolText))
           /\ from_slice_MmdsConfig(body) = Ok(MmdsConfig(<<>>))
           /\ ipv4_addr_pool(MmdsConfig(<<>>)) = Ok(<<>>)

C3_Witness ==
    /\ op = "put"
    /\ first_token = Some("config")
    /\ body = EmptyPoolBody
    /\ ~result.ok
    /\ result.err.kind = "Generic"

\* C4: a configuration body whose pool holds at least one string that is not
\* an IPv4 address, PUT with token "config", fails with Error::MmdsConfig
\* wrapping IPv4ParseError, wherever the bad entry stands.
C4_InvalidConfig ==
    (op = "put" /\ first_token = Some("config") /\ IsConfigBody(body)
       /\ \E i \in 1..Len(body.doc.members[1].value.items) :
             ~ParsesAsIpv4(body.doc.members[1].value.items[i].s))
        => result = Err(MmdsConfigError(IPv4ParseError(AddrParseError)))

C4_Witness ==
    /\ op = "put"
    /\ first_token = Some("config")
    /\ body = JsonBody(JObj(<<Member(PoolKey, PoolDoc(<<A1111, A11111>>))>>))
    /\ ~result.ok
    /\ result.err.kind = "MmdsConfig"

\* C5: an object with any member other than ipv4_address_pool, PUT with token
\* "config", fails with Error::SerdeJson, also when a valid pool is present.
C5_UnknownField ==
    (op = "put" /\ first_token = Some("config") /\ IsObject(body)
       /\ \E i \in 1..Len(body.doc.members) : body.doc.members[i].key # PoolKey)
        => (~result.ok /\ result.err.kind = "SerdeJson")

C5_Witness ==
    /\ op = "put"
    /\ first_token = Some("config")
    /\ body = JsonBody(JObj(<<Member(PoolKey, PoolDoc(<<A1111>>)),
                              Member("invalid_config", JStr(<<"v">>))>>))
    /\ ~result.ok
    /\ result.err.kind = "SerdeJson"

\* C6: a PUT without path token succeeds as PutMMDS carrying the body's JSON
\* value, with no configuration validation, and fails with Error::SerdeJson
\* when the body is not JSON.
C6_PutData ==
    (op = "put" /\ ~first_token.some)
        => IF body.json
           THEN result = Ok(PutMMDS(to_value(body.doc)))
           ELSE ~result.ok /\ result.err.kind = "SerdeJson"

C6_Witness ==
    /\ op = "put"
    /\ first_token = None
    /\ body = JsonBody(JObj(<<Member(PoolKey, PoolDoc(<<A11111>>)),
                              Member("invalid_config", JStr(<<"v">>))>>))
    /\ result.ok
    /\ result.val.kind = "PutMMDS"
    /\ result.val.data.map[PoolKey].elems[1].str = A11111

\* C7: PATCH succeeds as PatchMMDS carrying the body's JSON value for every
\* JSON body and fails with Error::SerdeJson otherwise; nothing else.
C7_PatchData ==
    (op = "patch")
        => IF body.json
           THEN result = Ok(PatchMMDS(to_value(body.doc)))
           ELSE ~result.ok /\ result.err.kind = "SerdeJson"

C7_Witness ==
    /\ op = "patch"
    /\ body = EmptyPoolBody
    /\ result.ok
    /\ result.val.kind = "PatchMMDS"
    /\ result.val.data.map[PoolKey].elems = <<>>

\* C8: ipv4_addr_pool returns Ok exactly when every entry parses, then with the
\* parse of the i-th entry at position i; otherwise IPv4ParseError, the loop
\* having stopped at the first unparseable entry.
C8_Ipv4AddrPool ==
    (pool_pc = "done")
        => LET pool == cfg.ipv4_address_pool
               bad  == {i \in 1..Len(pool) : ~ParsesAsIpv4(pool[i])}
           IN /\ pool_result.ok <=> (bad = {})
              /\ pool_result = ipv4_addr_pool(cfg)
              /\ pool_result.ok =>
                    /\ Len(pool_result.val) = Len(pool)
                    /\ \A i \in 1..Len(pool) : pool_result.val[i] = from_str(pool[i]).val
              /\ ~pool_result.ok =>
                    /\ pool_result.err = IPv4ParseError(AddrParseError)
                    /\ idx \in bad
                    /\ \A i \in bad : idx <= i
                    /\ Len(ipv4_addr_vec) = idx - 1

C8_Witness ==
    /\ pool_pc = "done"
    /\ cfg = MmdsConfig(<<A255, A256>>)
    /\ ~pool_result.ok
    /\ idx = 2
    /\ ipv4_addr_vec = <<[octets |-> <<255, 0, 10, 9>>]>>

\* The case of a PUT (b, t), read off its inputs.
ErrorCase(b, t) ==
    IF t.some /\ t.v # "config" THEN "routing"
    ELSE IF ~t.some THEN (IF b.json THEN "none" ELSE "malformed")
    ELSE LET c == from_slice_MmdsConfig(b) IN
         IF ~c.ok THEN "malformed"
         ELSE IF \E i \in 1..Len(c.val.ipv4_address_pool) :
                    ~ParsesAsIpv4(c.val.ipv4_address_pool[i])
              THEN "invalid"
              ELSE IF c.val.ipv4_address_pool = <<>> THEN "empty" ELSE "none"

\* One PUT of each failing case, to compare a returned error with.
ErrorSamples ==
    {<<NotJsonBody, Some("invalid_path")>>,
     <<EmptyPoolBody, Some("")>>,
     <<NotJsonBody, Some("config")>>,
     <<NotJsonBody, None>>,
     <<JsonBody(JObj(<<Member(PoolKey, PoolDoc(<<A11111>>))>>)), Some("config")>>,
     <<EmptyPoolBody, Some("config")>>}

\* The case and the error of each sample.
SampleErrors ==
    {[case |-> ErrorCase(x[1], x[2]), err |-> parse_put_mmds(x[1], x[2]).err] :
        x \in ErrorSamples}

\* C9 as stated: errors of two different cases always differ in kind.
C9_Original ==
    (op = "put" /\ ~result.ok)
        => LET case == ErrorCase(body, first_token) IN
           \A x \in SampleErrors : x.case # case => x.err.kind # result.err.kind

\* C9 amended: errors of two different cases are always different values; they
\* differ in kind too, except that the routing error and the empty-pool error
\* are both Error::Generic with StatusCode::BadRequest and differ in message.
C9_Distinguishable ==
    (op = "put")
        => LET case == ErrorCase(body, first_token) IN
           /\ result.ok <=> (case = "none")
           /\ ~result.ok =>
                 \A x \in SampleErrors :
                    x.case # case
                       => /\ x.err # result.err
                          /\ x.err.kind = result.err.kind
                               => /\ {x.case, case} = {"routing", "empty"}
                                  /\ result.err.kind = "Generic"
                                  /\ result.err.status = "BadRequest"
                                  /\ x.err.status = "BadRequest"
                                  /\ x.err.msg # result.err.msg

C9_Witness ==
    /\ op = "put"
    /\ first_token = Some("config")
    /\ body = EmptyPoolBody
    /\ ~result.ok
    /\ result.err.kind = parse_put_mmds(NotJsonBody, Some("invalid_path")).err.kind
    /\ result.err # parse_put_mmds(NotJsonBody, Some("invalid_path")).err

\* C10: SetMmdsConfiguration comes only from a PUT with token "config" and
\* carries a non-empty pool of IPv4 strings; no parse operation returns
\* SetMmdsConfigurationNotAllowedPostBoot.
C10_SetConfigurationOnly ==
    Done
        => /\ (result.ok /\ result.val.kind = "Sync")
                => /\ op = "put"
                   /\ first_token = Some("config")
                   /\ result.val.action = "SetMmdsConfiguration"
                   /\ result.val.config.ipv4_address_pool # <<>>
                   /\ \A i \in 1..Len(result.val.config.ipv4_address_pool) :
                         ParsesAsIpv4(result.val.config.ipv4_address_pool[i])
           /\ (~result.ok /\ result.err.kind = "MmdsConfig")
                => result.err.cfgerr # SetMmdsConfigurationNotAllowedPostBoot
           /\ (op = "get") => result = Ok(GetMMDS)

C10_Witness ==
    /\ op = "put"
    /\ first_token = Some("config")
    /\ body = JsonBody(JArr(<<PoolDoc(<<A1111, A1111>>)>>))
    /\ result.ok
    /\ result.val.kind = "Sync"
    /\ result.val.config.ipv4_address_pool = <<A1111, A1111>>

====
